---- MODULE Spec2Model ----
(***************************************************************************)
(* Model of telegram_ai_bot: the per-user rate limiter and the dispatch    *)
(* of one text message in bot.on_message, with the backend resolved by     *)
(* bot.main / config.get_ai_engine.                                        *)
(*                                                                         *)
(* Updates are handled one after another (Application is built without     *)
(* concurrent_updates), so under Spec one action is one whole run of the   *)
(* handler.  reply_text is taken to deliver the text it is given.          *)
(* Time is time.time() in whole seconds; successive readings never         *)
(* decrease.                                                               *)
(***************************************************************************)
EXTENDS Integers, Sequences, FiniteSets, TLC

(* ------------------------------ bounds -------------------------------- *)
NumUsers == 2          \* distinct user ids that write to the bot
MaxNow == 672          \* time.time() readings are modelled up to here
FineUntil == 5         \* readings advance second by second below this
ShortNow == 6          \* ... and up to here when two users write

Users == 1..NumUsers

(* -------------------------- program constants ------------------------- *)
cooldown_seconds == 3
window_seconds == 600
window_limit == 20

(* A jump of the clock that leaves the oldest hits just outside the window *)
Jump == window_seconds - window_limit * cooldown_seconds

(* A pause after which a hit made just before it is still inside the window, *)
(* for less than cooldown_seconds more                                       *)
LongPause == window_seconds - cooldown_seconds + 1

(* outbound texts of bot.py, by role *)
TextOnlyNotice == "text_only"
ShortWarning == "wait_cooldown"
WindowWarning == "too_many"
NotReadyNotice == "not_ready"
Apology == "apology"
CannotReply == "cannot_reply"
BackendReply == "reply"
DummyBlankReply == "write_something"

(* kinds of update.message.text *)
NoText == "none"
Blank == "blank"
Words == "words"
Texts == {NoText, Blank, Words}

(* what the remote model does with a generate_content call *)
Outcomes == {"reply", "empty", "raise"}

VARIABLES
    app,          \* "init", "polling" (run_polling entered), "failed" (main raised)
    ai_engine,    \* bot_data["ai_engine"]: "unset", "dummy", "gemini"
    clock,        \* the latest time.time() reading
    rate_limit,   \* bot_data["rate_limit"]: user_id -> record
    last,         \* what the latest run of on_message did
    accepted,     \* per user, every timestamp ever accepted, oldest first
    nShort,       \* per user, short-cooldown warnings sent since the last acceptance
    nWindow,      \* per user, window warnings sent since the last acceptance
    writers,      \* the users that write to the bot in this run
    failed,       \* the users for whom a backend call has raised so far
    texted,       \* the users of whom a text message has been handled
    solo,         \* per user, the table of a run fed that user's messages only
    GEMINI_API_KEY,   \* config.GEMINI_API_KEY
    GEMINI_MODEL,     \* config.GEMINI_MODEL
    service,      \* what the Gemini service answers to a probe of each model
    gemini,       \* the GeminiAIEngine under construction
    concurrent_updates,   \* the Application's concurrent_updates setting
    update_queue, \* the updates fetched and not yet handed to a handler
    handlers      \* per await and user, the runs of on_message suspended there

geminiVars == <<GEMINI_API_KEY, GEMINI_MODEL, service, gemini>>

loopVars == <<concurrent_updates, update_queue, handlers>>

botVars == <<app, ai_engine, clock, rate_limit, last, accepted, nShort,
             nWindow, writers, failed, texted, solo>>

vars == <<botVars, geminiVars, loopVars>>

(* --------------------------- pure helpers ----------------------------- *)
\* the default record of rl.setdefault(user_id, {...})
NewUserRl == [last_ts |-> 0, hits |-> <<>>,
              warned_short |-> FALSE, warned_window |-> FALSE]

\* SetDefault as a plain assignment rl[user_id] = {...}
SetDefault_Overwrite(rl, user_id) ==
    [k \in DOMAIN rl \cup {user_id} |->
        IF k = user_id THEN NewUserRl ELSE rl[k]]

\* SetDefault with one default dict shared by all users: a new user starts
\* on the record of a user already in the table
SetDefault_Shared(rl, user_id) ==
    IF user_id \in DOMAIN rl THEN rl
    ELSE IF DOMAIN rl = {} THEN rl @@ (user_id :> NewUserRl)
    ELSE rl @@ (user_id :> rl[CHOOSE k \in DOMAIN rl : TRUE])

\* rl.setdefault(user_id, {...})
SetDefault(rl, user_id) ==
    IF user_id \in DOMAIN rl THEN rl ELSE rl @@ (user_id :> NewUserRl)

\* InCooldown with the bound off by one
InCooldown_OffByOne(user_rl, now) ==
    now - user_rl.last_ts < cooldown_seconds - 1

\* now - user_rl["last_ts"] < 3
InCooldown(user_rl, now) == now - user_rl.last_ts < cooldown_seconds

\* PruneHits that keeps a hit exactly window_seconds old
PruneHits_Inclusive(hits, now) ==
    SelectSeq(hits, LAMBDA t : now - t <= window_seconds)

\* [t for t in hits if now - t < window_seconds]
PruneHits(hits, now) == SelectSeq(hits, LAMBDA t : now - t < window_seconds)

\* WindowFull with > for >=
WindowFull_Strict(hits) == Len(hits) > window_limit

\* len(user_rl["hits"]) >= window_limit
WindowFull(hits) == Len(hits) >= window_limit

\* MarkWarnedShort that forgets the flag
MarkWarnedShort_Forget(user_rl) == user_rl

\* user_rl["warned_short"] = True
MarkWarnedShort(user_rl) == [user_rl EXCEPT !.warned_short = TRUE]

\* user_rl["warned_window"] = True
MarkWarnedWindow(user_rl) == [user_rl EXCEPT !.warned_window = TRUE]

\* RecordAccept that leaves the warned flags as they are
RecordAccept_KeepFlags(user_rl, now) ==
    [user_rl EXCEPT !.last_ts = now, !.hits = Append(user_rl.hits, now)]

\* the four assignments of an acceptance, on the record with pruned hits
RecordAccept(user_rl, now) ==
    [last_ts |-> now, hits |-> Append(user_rl.hits, now),
     warned_short |-> FALSE, warned_window |-> FALSE]

\* DummyAI.generate_reply and GeminiAIEngine.generate_reply; outcome is what
\* the remote generate_content call does.  "raised", "" or the reply text
GenerateReply(engine, text, outcome) ==
    IF engine = "dummy"
    THEN (IF text = Blank THEN DummyBlankReply ELSE BackendReply)
    ELSE IF text = Blank THEN ""
    ELSE IF outcome = "raise" THEN "raised"
    ELSE IF outcome = "empty" THEN ""
    ELSE BackendReply

\* Dispatch with the two fallback texts swapped
Dispatch_SwapFallback(engine, result) ==
    IF engine = "unset"
    THEN [sent |-> <<NotReadyNotice>>, calls |-> 0, raised |-> FALSE]
    ELSE IF result = "raised"
    THEN [sent |-> <<CannotReply>>, calls |-> 1, raised |-> FALSE]
    ELSE IF result = ""
    THEN [sent |-> <<Apology>>, calls |-> 1, raised |-> FALSE]
    ELSE [sent |-> <<result>>, calls |-> 1, raised |-> FALSE]

\* Dispatch that sends an empty result as it is
Dispatch_NoFallback(engine, result) ==
    IF engine = "unset"
    THEN [sent |-> <<NotReadyNotice>>, calls |-> 0, raised |-> FALSE]
    ELSE IF result = "raised"
    THEN [sent |-> <<Apology>>, calls |-> 1, raised |-> FALSE]
    ELSE [sent |-> <<result>>, calls |-> 1, raised |-> FALSE]

\* Dispatch without the try/except around generate_reply
Dispatch_NoCatch(engine, result) ==
    IF engine = "unset"
    THEN [sent |-> <<NotReadyNotice>>, calls |-> 0, raised |-> FALSE]
    ELSE IF result = "raised"
    THEN [sent |-> <<>>, calls |-> 1, raised |-> TRUE]
    ELSE IF result = ""
    THEN [sent |-> <<CannotReply>>, calls |-> 1, raised |-> FALSE]
    ELSE [sent |-> <<result>>, calls |-> 1, raised |-> FALSE]

\* on_message after the rate-limit state update, given what generate_reply
\* did: [sent, calls, raised]
Dispatch(engine, result) ==
    IF engine = "unset"
    THEN [sent |-> <<NotReadyNotice>>, calls |-> 0, raised |-> FALSE]
    ELSE IF result = "raised"
    THEN [sent |-> <<Apology>>, calls |-> 1, raised |-> FALSE]
    ELSE IF result = ""
    THEN [sent |-> <<CannotReply>>, calls |-> 1, raised |-> FALSE]
    ELSE [sent |-> <<result>>, calls |-> 1, raised |-> FALSE]

\* CheckAndRecord with the window check before the short-cooldown check
CheckAndRecord_WindowFirst(user_rl, now) ==
    LET pruned == [user_rl EXCEPT !.hits = PruneHits(user_rl.hits, now)] IN
    IF WindowFull(pruned.hits)
    THEN IF ~pruned.warned_window
         THEN [user_rl |-> MarkWarnedWindow(pruned), decision |-> "window_warn"]
         ELSE [user_rl |-> pruned, decision |-> "window_silent"]
    ELSE IF InCooldown(pruned, now)
    THEN IF ~pruned.warned_short
         THEN [user_rl |-> MarkWarnedShort(pruned), decision |-> "short_warn"]
         ELSE [user_rl |-> pruned, decision |-> "short_silent"]
    ELSE [user_rl |-> RecordAccept(pruned, now), decision |-> "accept"]

\* CheckAndRecord where a message rejected by the cooldown restarts it
CheckAndRecord_Restart(user_rl, now) ==
    IF InCooldown(user_rl, now)
    THEN IF ~user_rl.warned_short
         THEN [user_rl |-> [MarkWarnedShort(user_rl) EXCEPT !.last_ts = now],
               decision |-> "short_warn"]
         ELSE [user_rl |-> [user_rl EXCEPT !.last_ts = now],
               decision |-> "short_silent"]
    ELSE LET pruned == [user_rl EXCEPT !.hits = PruneHits(user_rl.hits, now)] IN
         IF WindowFull(pruned.hits)
         THEN IF ~pruned.warned_window
              THEN [user_rl |-> MarkWarnedWindow(pruned),
                    decision |-> "window_warn"]
              ELSE [user_rl |-> pruned, decision |-> "window_silent"]
         ELSE [user_rl |-> RecordAccept(pruned, now), decision |-> "accept"]

\* the rate-limit part of on_message on the user's record:
\* [user_rl, decision]
CheckAndRecord(user_rl, now) ==
    IF InCooldown(user_rl, now)
    THEN IF ~user_rl.warned_short
         THEN [user_rl |-> MarkWarnedShort(user_rl), decision |-> "short_warn"]
         ELSE [user_rl |-> user_rl, decision |-> "short_silent"]
    ELSE LET pruned == [user_rl EXCEPT !.hits = PruneHits(user_rl.hits, now)] IN
         IF WindowFull(pruned.hits)
         THEN IF ~pruned.warned_window
              THEN [user_rl |-> MarkWarnedWindow(pruned),
                    decision |-> "window_warn"]
              ELSE [user_rl |-> pruned, decision |-> "window_silent"]
         ELSE [user_rl |-> RecordAccept(pruned, now), decision |-> "accept"]

\* the text a rejection sends, if any
RejectionText(decision) ==
    IF decision = "short_warn" THEN <<ShortWarning>>
    ELSE IF decision = "window_warn" THEN <<WindowWarning>>
    ELSE <<>>

\* on_message for a message with text and user, from the rate-limit lookup
\* on: [rl, decision, sent, calls, raised]
HandleText(rl0, engine, user_id, now, result) ==
    LET rl == SetDefault(rl0, user_id)
        c == CheckAndRecord(rl[user_id], now)
        d == Dispatch(engine, result)
    IN
    IF c.decision = "accept"
    THEN [rl |-> [rl EXCEPT ![user_id] = c.user_rl], decision |-> "accept",
          sent |-> d.sent, calls |-> d.calls, raised |-> d.raised]
    ELSE [rl |-> [rl EXCEPT ![user_id] = c.user_rl], decision |-> c.decision,
          sent |-> RejectionText(c.decision), calls |-> 0, raised |-> FALSE]

(* ------------------------------ state --------------------------------- *)
\* the record of one run of on_message; result, first, changed, cleared,
\* recent, since, after_failure and solo_decision are observations of the
\* run, not state of the program
\* ---- GeminiAIEngine: model selection ----

\* a model identifier is the sequence of its "/"-separated parts; Space
\* is a value of only white space
Space == <<" ">>
Flash == <<"gemini-1.5-flash">>
FlashLatest == <<"gemini-1.5-flash-latest">>
ProLatest == <<"gemini-1.5-pro-latest">>
Pro == <<"gemini-pro">>

\* f"models/{m}"
ModelsForm(m) == <<"models">> \o m

\* m.startswith("models/")
StartsWithModels(m) == Len(m) > 1 /\ m[1] = "models"

\* (model or "").strip()
Strip(model) == IF model = Space THEN <<>> ELSE model

\* the candidates.extend([...]) list
Fallbacks == <<FlashLatest, ModelsForm(FlashLatest), ProLatest,
               ModelsForm(ProLatest), Pro, ModelsForm(Pro)>>

\* the candidates list of _create_model_with_fallback
Candidates(model) ==
    LET m == Strip(model) IN
    (IF m = <<>> THEN <<>>
     ELSE IF StartsWithModels(m) THEN <<m>>
     ELSE <<m, ModelsForm(m)>>) \o Fallbacks

\* what generate_content("ping") does: returns, raises NotFound, or raises
\* another error (permission, quota, network)
ProbeOutcomes == {"ok", "NotFound", "OtherError"}

RECURSIVE ProbeFrom(_, _, _)
\* the for loop from position i on: [state, _model_name]
ProbeFrom(candidates, i, probe) ==
    IF i > Len(candidates) THEN [state |-> "RuntimeError", name |-> <<>>]
    ELSE IF probe[candidates[i]] = "ok"
    THEN [state |-> "built", name |-> candidates[i]]
    ELSE IF probe[candidates[i]] = "NotFound"
    THEN ProbeFrom(candidates, i + 1, probe)
    ELSE [state |-> "OtherError", name |-> <<>>]

\* GeminiAIEngine._create_model_with_fallback
CreateModelWithFallback(model, probe) ==
    ProbeFrom(Candidates(model), 1, probe)

\* GeminiAIEngine.__init__: the object, or the exception that ends it
GeminiInit(api_key, model, probe) ==
    IF api_key = "" THEN [state |-> "ValueError", _model_name |-> <<>>]
    ELSE LET r == CreateModelWithFallback(model, probe) IN
         [state |-> r.state,
          _model_name |-> IF r.state = "built" THEN r.name ELSE model]

NoGemini == [state |-> "none", _model_name |-> <<>>]

\* ---- on_message between its awaits ----

MaxInFlight == 2

\* the awaits of on_message after which it still writes or calls:
\* reply_text with a warning (bot.py:58, 70) and asyncio.to_thread (89)
Awaits == {"short_reply", "window_reply", "to_thread"}

Idle == [a \in Awaits, u \in Users |-> 0]

RECURSIVE CountIn(_, _)
\* the number of suspended runs among the places of S
CountIn(hs, S) ==
    IF S = {} THEN 0
    ELSE LET x == CHOOSE y \in S : TRUE IN hs[x] + CountIn(hs, S \ {x})

InFlight == CountIn(handlers, Awaits \X Users)

\* RecordsBeforeAwait with the acceptance recorded after the await, at the
\* time read then
RecordsBeforeAwait_After == FALSE

\* bot.py:77-89: the acceptance is recorded before the await of the
\* backend call
RecordsBeforeAwait == TRUE

\* bot.py:41-89 up to the first await: the record as written so far, the
\* decision, and the await the run is suspended at
CheckUntilAwait(user_rl, now) ==
    IF InCooldown(user_rl, now)
    THEN IF ~user_rl.warned_short
         THEN [user_rl |-> user_rl, decision |-> "short_warn",
               pc |-> "short_reply"]
         ELSE [user_rl |-> user_rl, decision |-> "short_silent",
               pc |-> "idle"]
    ELSE LET pruned == [user_rl EXCEPT !.hits = PruneHits(user_rl.hits, now)] IN
         IF WindowFull(pruned.hits)
         THEN IF ~pruned.warned_window
              THEN [user_rl |-> pruned, decision |-> "window_warn",
                    pc |-> "window_reply"]
              ELSE [user_rl |-> pruned, decision |-> "window_silent",
                    pc |-> "idle"]
         ELSE [user_rl |-> IF RecordsBeforeAwait
                           THEN RecordAccept(pruned, now) ELSE pruned,
               decision |-> "accept", pc |-> "to_thread"]

\* Application._update_fetcher as built by main(): without
\* concurrent_updates an update waits until the handler of the one before
\* it has returned
CanStart ==
    /\ update_queue # <<>>
    /\ InFlight < MaxInFlight
    /\ concurrent_updates \/ InFlight = 0

NoRun == [kind |-> "none", user |-> 0, now |-> 0, text |-> NoText,
          decision |-> "none", sent |-> <<>>, calls |-> 0, raised |-> FALSE,
          result |-> "none", first |-> FALSE, changed |-> FALSE,
          cleared |-> FALSE, recent |-> 0, since |-> 0,
          after_failure |-> FALSE, solo_decision |-> "none"]

Init ==
    /\ app = "init"
    /\ ai_engine = "unset"
    /\ clock = 0
    /\ rate_limit = <<>>
    /\ last = NoRun
    /\ accepted = [u \in Users |-> <<>>]
    /\ nShort = [u \in Users |-> 0]
    /\ nWindow = [u \in Users |-> 0]
    /\ writers \in {1..n : n \in Users}
    /\ failed = {}
    /\ texted = {}
    /\ solo = [u \in Users |-> <<>>]
    /\ GEMINI_API_KEY = ""
    /\ GEMINI_MODEL = <<>>
    /\ service = <<>>
    /\ gemini = NoGemini
    /\ concurrent_updates = FALSE
    /\ update_queue = <<>>
    /\ handlers = Idle

(* ------------------------------ startup ------------------------------- *)
\* GetAiEngine that returns None for an unknown AI_ENGINE key
GetAiEngine_NoneOnUnknown(AI_ENGINE, keyOk, modelOk) ==
    IF AI_ENGINE = "dummy" THEN "dummy"
    ELSE IF AI_ENGINE = "gemini"
    THEN IF keyOk /\ modelOk THEN "gemini" ELSE "raise"
    ELSE "unset"

\* config.get_ai_engine: the engine built, or "raise"
GetAiEngine(AI_ENGINE, keyOk, modelOk) ==
    IF AI_ENGINE = "dummy" THEN "dummy"
    ELSE IF AI_ENGINE = "gemini"
    THEN IF keyOk /\ modelOk THEN "gemini" ELSE "raise"
    ELSE "raise"

\* bot.main up to run_polling
Main(tokenOk, AI_ENGINE, keyOk, modelOk) ==
    /\ app = "init"
    /\ LET e == GetAiEngine(AI_ENGINE, keyOk, modelOk) IN
       IF ~tokenOk \/ e = "raise"
       THEN /\ app' = "failed"
            /\ UNCHANGED ai_engine
       ELSE /\ app' = "polling"
            /\ ai_engine' = e
    /\ UNCHANGED <<clock, rate_limit, last, accepted, nShort, nWindow,
                   writers, failed, texted, solo, geminiVars, loopVars>>

(* --------------------------- the environment -------------------------- *)
\* readings advance second by second in the first FineUntil seconds of the
\* run and in the first FineUntil seconds after a long pause
FineZone(t) == t < FineUntil \/ (t >= LongPause /\ t < LongPause + FineUntil)

\* how far the next time.time() reading may lie after the latest one:
\* messages follow each other within cooldown_seconds, or after a long pause
\* taken early in the run; a writer told by the window warning to take a
\* break tries again at once, after a pause of Jump seconds or after a whole
\* window
Deltas == IF \E u \in writers : nWindow[u] > 0 THEN {0, Jump, window_seconds}
          ELSE IF clock < FineUntil THEN {0, 1, 2, cooldown_seconds, LongPause}
          ELSE IF FineZone(clock) THEN {0, 1, 2, cooldown_seconds}
          ELSE {0, cooldown_seconds}

\* the last reading modelled: the more writers, the shorter the run; a run
\* that took the long pause ends shortly after it, and a run that went on
\* after a window warning ends with its second acceptance after that
Horizon ==
    IF Cardinality(writers) > 1 THEN ShortNow \div (Cardinality(writers) - 1)
    ELSE IF clock >= LongPause /\ \A u \in Users : Len(accepted[u]) < window_limit
    THEN LongPause + 2 * FineUntil
    ELSE IF \E u \in Users : Len(accepted[u]) > window_limit + 1
    THEN clock
    ELSE MaxNow

\* the timestamps of seq that lie within the window before now
Recent(seq, now) == SelectSeq(seq, LAMBDA t : now - t < window_seconds)

(* ------------------------------ handlers ------------------------------ *)
\* the early returns of on_message
Early == {"no_message", "no_text", "no_user"}

\* OnNonText with the text check moved after the rate-limit lookup
OnNonText_AfterLookup(what, u) ==
    /\ app = "polling"
    /\ u \in writers
    /\ rate_limit' = IF what = "no_text" THEN SetDefault(rate_limit, u)
                     ELSE rate_limit
    /\ last' = [NoRun EXCEPT !.kind = what, !.user = u, !.now = clock,
                             !.text = IF what = "no_user" THEN Words
                                      ELSE NoText,
                             !.sent = IF what = "no_text"
                                      THEN <<TextOnlyNotice>> ELSE <<>>,
                             !.after_failure = (failed # {})]
    /\ UNCHANGED <<app, ai_engine, clock, accepted, nShort, nWindow, writers,
                   failed, texted, solo, geminiVars, loopVars>>

\* on_message for an update of user u that has no message, or whose message
\* has no text (answered by the notice), or that has a text but no
\* effective_user
OnNonText(what, u) ==
    /\ app = "polling"
    /\ u \in writers
    /\ last' = [NoRun EXCEPT !.kind = what, !.user = u, !.now = clock,
                             !.text = IF what = "no_user" THEN Words
                                      ELSE NoText,
                             !.sent = IF what = "no_text"
                                      THEN <<TextOnlyNotice>> ELSE <<>>,
                             !.after_failure = (failed # {})]
    /\ UNCHANGED <<app, ai_engine, clock, rate_limit, accepted, nShort,
                   nWindow, writers, failed, texted, solo, geminiVars, loopVars>>

\* on_message for a message with text sent by user u, read at clock + d
OnMessage(u, d, text, outcome) ==
    /\ app = "polling"
    /\ text # NoText
    /\ u \in writers
    /\ clock + d <= Horizon
    /\ LET now == clock + d
           result == GenerateReply(ai_engine, text, outcome)
           r == HandleText(rate_limit, ai_engine, u, now, result)
           called == r.calls > 0
           alone == HandleText(solo[u], ai_engine, u, now, result)
       IN
       \* an outcome of the backend is drawn only when the backend is called
       /\ called \/ outcome = "reply"
       /\ clock' = now
       /\ rate_limit' = r.rl
       /\ last' = [kind |-> "text", user |-> u, now |-> now, text |-> text,
                   decision |-> r.decision, sent |-> r.sent, calls |-> r.calls,
                   raised |-> r.raised,
                   result |-> IF called THEN result ELSE "none",
                   first |-> u \notin DOMAIN rate_limit,
                   changed |-> r.rl # rate_limit,
                   cleared |-> /\ r.decision = "accept"
                               /\ u \in DOMAIN rate_limit
                               /\ \/ rate_limit[u].warned_short
                                  \/ rate_limit[u].warned_window,
                   recent |-> Len(Recent(accepted[u], now)),
                   since |-> IF accepted[u] = <<>> THEN now
                             ELSE now - accepted[u][Len(accepted[u])],
                   after_failure |-> (failed # {}),
                   solo_decision |-> alone.decision]
       /\ texted' = texted \cup {u}
       /\ solo' = [solo EXCEPT ![u] = alone.rl]
       /\ accepted' = IF r.decision = "accept"
                      THEN [accepted EXCEPT ![u] = Append(@, now)]
                      ELSE accepted
       /\ nShort' = [nShort EXCEPT ![u] =
                        IF r.decision = "accept" THEN 0
                        ELSE IF r.decision = "short_warn" THEN @ + 1 ELSE @]
       /\ nWindow' = [nWindow EXCEPT ![u] =
                        IF r.decision = "accept" THEN 0
                        ELSE IF r.decision = "window_warn" THEN @ + 1 ELSE @]
       /\ failed' = IF called /\ result = "raised" THEN failed \cup {u}
                    ELSE failed
    /\ UNCHANGED <<app, ai_engine, writers, geminiVars, loopVars>>

Next ==
    \/ \E tokenOk \in BOOLEAN, e \in {"dummy", "gemini", "bogus"},
          keyOk \in BOOLEAN, modelOk \in BOOLEAN :
          Main(tokenOk, e, keyOk, modelOk)
    \/ \E what \in Early, u \in Users : OnNonText(what, u)
    \/ \E u \in Users, text \in Texts \ {NoText}, outcome \in Outcomes,
          d \in Deltas : OnMessage(u, d, text, outcome)

Spec == Init /\ [][Next]_vars

\* ---- the dispatch loop with on_message suspended at its awaits ----

LoopDeltas == {0, cooldown_seconds}

\* the acceptances of a user who has sent a message every 3 seconds, one
\* short of the window limit
BusyHits == [i \in 1..(window_limit - 1) |-> i * cooldown_seconds]

BusyUntil == BusyHits[Len(BusyHits)]

BusyRl == [last_ts |-> BusyUntil, hits |-> BusyHits,
           warned_short |-> FALSE, warned_window |-> FALSE]

LoopHorizon ==
    (IF \E u \in Users : Len(accepted[u]) >= Len(BusyHits)
     THEN BusyUntil ELSE 0) + ShortNow \div Cardinality(writers)

\* the loop starts with an empty table, or at the point where user 1 has
\* been accepted one message short of the window limit
InitLoop(cu) ==
    /\ app = "polling"
    /\ ai_engine \in {"dummy", "gemini"}
    /\ \/ /\ clock = 0
          /\ rate_limit = <<>>
          /\ accepted = [u \in Users |-> <<>>]
          /\ texted = {}
       \/ /\ clock = BusyUntil
          /\ rate_limit = (1 :> BusyRl)
          /\ accepted = [u \in Users |-> IF u = 1 THEN BusyHits ELSE <<>>]
          /\ texted = {1}
    /\ last = NoRun
    /\ nShort = [u \in Users |-> 0]
    /\ nWindow = [u \in Users |-> 0]
    /\ writers \in {1..n : n \in Users}
    /\ failed = {}
    /\ solo = [u \in Users |-> <<>>]
    /\ GEMINI_API_KEY = ""
    /\ GEMINI_MODEL = <<>>
    /\ service = <<>>
    /\ gemini = NoGemini
    /\ concurrent_updates = cu
    /\ update_queue = <<>>
    /\ handlers = Idle

\* run_polling puts a text message of user u into the update queue; the
\* next one is fetched when this one has been handed to on_message
Deliver(u) ==
    /\ app = "polling"
    /\ u \in writers
    /\ update_queue = <<>>
    /\ update_queue' = Append(update_queue, u)
    /\ UNCHANGED <<botVars, geminiVars, concurrent_updates, handlers>>

\* on_message from its start to its first await (or to its return)
StartHandler(d) ==
    /\ CanStart
    /\ clock + d <= LoopHorizon
    /\ LET u == Head(update_queue)
           now == clock + d
           rl == SetDefault(rate_limit, u)
           r == CheckUntilAwait(rl[u], now)
       IN
       /\ clock' = now
       /\ update_queue' = Tail(update_queue)
       /\ rate_limit' = [rl EXCEPT ![u] = r.user_rl]
       /\ handlers' = IF r.pc = "idle" THEN handlers
                      ELSE [handlers EXCEPT ![r.pc, u] = @ + 1]
       /\ accepted' = IF r.decision = "accept"
                      THEN [accepted EXCEPT ![u] = Append(@, now)]
                      ELSE accepted
       /\ nShort' = [nShort EXCEPT ![u] =
                        IF r.decision = "accept" THEN 0
                        ELSE IF r.decision = "short_warn" THEN @ + 1 ELSE @]
       /\ nWindow' = [nWindow EXCEPT ![u] =
                        IF r.decision = "accept" THEN 0
                        ELSE IF r.decision = "window_warn" THEN @ + 1 ELSE @]
       /\ texted' = texted \cup {u}
    /\ UNCHANGED <<app, ai_engine, last, writers, failed, solo, geminiVars,
                   concurrent_updates>>

\* bot.py:58-62: reply_text has returned, warned_short is set
AfterShortWarning(u) ==
    /\ handlers["short_reply", u] > 0
    /\ rate_limit' = [rate_limit EXCEPT ![u] = MarkWarnedShort(@)]
    /\ handlers' = [handlers EXCEPT !["short_reply", u] = @ - 1]
    /\ UNCHANGED <<app, ai_engine, clock, last, accepted, nShort, nWindow,
                   writers, failed, texted, solo, geminiVars,
                   concurrent_updates, update_queue>>

\* bot.py:70-74: reply_text has returned, warned_window is set
AfterWindowWarning(u) ==
    /\ handlers["window_reply", u] > 0
    /\ rate_limit' = [rate_limit EXCEPT ![u] = MarkWarnedWindow(@)]
    /\ handlers' = [handlers EXCEPT !["window_reply", u] = @ - 1]
    /\ UNCHANGED <<app, ai_engine, clock, last, accepted, nShort, nWindow,
                   writers, failed, texted, solo, geminiVars,
                   concurrent_updates, update_queue>>

\* bot.py:89-100: asyncio.to_thread has returned or raised, the reply, the
\* fallback or the apology has been sent by reply_text, on_message returns
BackendReturns(u) ==
    /\ handlers["to_thread", u] > 0
    /\ rate_limit' = IF RecordsBeforeAwait THEN rate_limit
                     ELSE [rate_limit EXCEPT ![u] = RecordAccept(@, clock)]
    /\ handlers' = [handlers EXCEPT !["to_thread", u] = @ - 1]
    /\ UNCHANGED <<app, ai_engine, clock, last, accepted, nShort, nWindow,
                   writers, failed, texted, solo, geminiVars,
                   concurrent_updates, update_queue>>

NextLoop ==
    \/ \E u \in Users : Deliver(u)
    \/ \E d \in LoopDeltas : StartHandler(d)
    \/ \E u \in Users : AfterShortWarning(u)
    \/ \E u \in Users : AfterWindowWarning(u)
    \/ \E u \in Users : BackendReturns(u)

\* the Application as main() builds it
InitPolling == InitLoop(FALSE)

SpecPolling == InitPolling /\ [][NextLoop]_vars

\* the same handlers when the updates of the queue are handled concurrently
InitConcurrent == InitLoop(TRUE)

SpecConcurrent == InitConcurrent /\ [][NextLoop]_vars

\* ---- construction of the Gemini backend on its own ----

ConfiguredModels == {<<>>, Space, Flash, ModelsForm(Pro)}

Range(seq) == {seq[i] : i \in 1..Len(seq)}

InitGemini ==
    /\ app = "init"
    /\ ai_engine = "unset"
    /\ clock = 0
    /\ rate_limit = <<>>
    /\ last = NoRun
    /\ accepted = [u \in Users |-> <<>>]
    /\ nShort = [u \in Users |-> 0]
    /\ nWindow = [u \in Users |-> 0]
    /\ writers = {1}
    /\ failed = {}
    /\ texted = {}
    /\ solo = [u \in Users |-> <<>>]
    /\ GEMINI_API_KEY \in {"", "key"}
    /\ GEMINI_MODEL \in ConfiguredModels
    /\ service \in [Range(Candidates(GEMINI_MODEL)) -> ProbeOutcomes]
    /\ gemini = NoGemini
    /\ concurrent_updates = FALSE
    /\ update_queue = <<>>
    /\ handlers = Idle

\* GeminiAIEngine(api_key=GEMINI_API_KEY, model=GEMINI_MODEL)
Construct ==
    /\ gemini = NoGemini
    /\ gemini' = GeminiInit(GEMINI_API_KEY, GEMINI_MODEL, service)
    /\ UNCHANGED <<botVars, GEMINI_API_KEY, GEMINI_MODEL, service, loopVars>>

NextGemini == Construct

SpecGemini == InitGemini /\ [][NextGemini]_vars

(* ------------------------------ claims -------------------------------- *)
ShortRejections == {"short_warn", "short_silent"}
WindowRejections == {"window_warn", "window_silent"}

\* C1: any two messages accepted for the same user have timestamps at least
\* 3 seconds apart; a message read at the very time of an acceptance of the
\* same user is not accepted (it would stand twice in the history).
AcceptedThreeApart ==
    \A u \in Users : \A i, j \in 1..Len(accepted[u]) :
        i < j => accepted[u][j] - accepted[u][i] >= 3

\* two acceptances exactly 3 seconds apart, then a message at the same
\* reading as the second one, rejected
C1Witness ==
    \E u \in Users :
        /\ Len(accepted[u]) >= 2
        /\ accepted[u][2] - accepted[u][1] = 3
        /\ last.kind = "text" /\ last.user = u
        /\ last.now = accepted[u][Len(accepted[u])]
        /\ last.decision \in ShortRejections

\* C2: for every user, at most 20 entries of hits lie within the 600
\* seconds before the latest decision time.
WindowHoldsAtMostLimit ==
    \A u \in DOMAIN rate_limit :
        Len(Recent(rate_limit[u].hits, clock)) <= 20

\* a message rejected by the window limit with 20 hits inside the window
C2Witness ==
    \E u \in DOMAIN rate_limit :
        /\ Len(Recent(rate_limit[u].hits, clock)) = 20
        /\ last.kind = "text" /\ last.user = u
        /\ last.decision \in WindowRejections

\* C3: since a user's latest acceptance at most one short-cooldown warning
\* and at most one window warning have been sent, whatever the number of
\* rejected messages.
OneWarningPerEpisode ==
    \A u \in Users : nShort[u] <= 1 /\ nWindow[u] <= 1

\* after one acceptance: a short-cooldown warning, a window warning and a
\* further message rejected silently
C3Witness ==
    \E u \in Users :
        /\ accepted[u] # <<>>
        /\ nShort[u] = 1 /\ nWindow[u] = 1
        /\ last.kind = "text" /\ last.user = u
        /\ last.decision = "window_silent"

\* C4: right after an acceptance both warned flags are false; only an
\* acceptance of that user turns a warned flag from true to false; and a
\* message is rejected silently only when the warning of that limit has been
\* sent since the user's latest acceptance.
FlagsFollowAcceptance ==
    [][ /\ \A u \in DOMAIN rate_limit' :
              (accepted'[u] # accepted[u]) =>
                  /\ ~rate_limit'[u].warned_short
                  /\ ~rate_limit'[u].warned_window
        /\ \A u \in DOMAIN rate_limit :
              (\/ rate_limit[u].warned_short /\ ~rate_limit'[u].warned_short
               \/ rate_limit[u].warned_window /\ ~rate_limit'[u].warned_window)
                  => accepted'[u] # accepted[u]
        /\ (last'.decision = "short_silent") => nShort'[last'.user] = 1
        /\ (last'.decision = "window_silent") => nWindow'[last'.user] = 1
      ]_vars

\* an acceptance that cleared a warned flag
C4Witness ==
    /\ last.kind = "text" /\ last.decision = "accept" /\ last.cleared
    /\ ~rate_limit[last.user].warned_short
    /\ ~rate_limit[last.user].warned_window
    /\ Len(accepted[last.user]) >= 2

\* C5: the first-ever text message of a user with no rate-limit record is
\* accepted, whatever the reading of the clock (0, 1 and 2 included).
FirstMessageAccepted ==
    (last.kind = "text" /\ last.first) => last.decision = "accept"

\* C6: a message that passes the short-cooldown check is accepted exactly
\* when fewer than 20 of the user's earlier accepted timestamps t have
\* now - t < 600.
AcceptedIffWindowHasRoom ==
    (last.kind = "text" /\ last.decision \notin ShortRejections) =>
        (last.decision = "accept" <=> last.recent < 20)

\* 20 acceptances inside 600 seconds, then a message when the earliest of
\* them is more than 600 seconds old, accepted
C6Witness ==
    \E u \in Users :
        /\ Len(accepted[u]) = 21
        /\ accepted[u][20] - accepted[u][1] < 600
        /\ accepted[u][21] - accepted[u][1] > 600
        /\ last.kind = "text" /\ last.user = u /\ last.decision = "accept"
        /\ last.now = accepted[u][21] /\ last.recent = 19

BackendFailureAbsorbed ==
    (last.kind = "text" /\ last.result = "raised") =>
        /\ last.decision = "accept"
        /\ last.sent = <<Apology>>
        /\ ~last.raised
        /\ LET user_rl == rate_limit[last.user] IN
           /\ user_rl.last_ts = last.now
           /\ user_rl.hits = Recent(accepted[last.user], last.now)
           /\ user_rl.hits[Len(user_rl.hits)] = last.now
           /\ ~user_rl.warned_short /\ ~user_rl.warned_window

\* a backend failure for a user's second accepted message
C8Witness ==
    /\ last.kind = "text" /\ last.result = "raised"
    /\ last.sent = <<Apology>>
    /\ Len(rate_limit[last.user].hits) >= 2

\* C9: a handled text message sends at most one text: none when rejected
\* silently, the warning when rejected with a warning, and when accepted
\* the backend's non-empty result, or the "cannot reply" text for an empty
\* result, or the apology when the backend raised.
OneOutboundPerMessage ==
    (last.kind = "text") =>
        /\ Len(last.sent) <= 1
        /\ last.decision \in {"short_silent", "window_silent"}
              => last.sent = <<>>
        /\ last.decision = "short_warn" => last.sent = <<ShortWarning>>
        /\ last.decision = "window_warn" => last.sent = <<WindowWarning>>
        /\ last.decision = "accept" =>
              /\ last.calls = 1
              /\ last.result = "raised" => last.sent = <<Apology>>
              /\ last.result = "" => last.sent = <<CannotReply>>
              /\ last.result \notin {"raised", ""} =>
                    last.sent = <<last.result>>

\* an accepted message whose backend result is empty
C9Witness ==
    /\ last.kind = "text" /\ last.decision = "accept"
    /\ last.result = "" /\ last.sent = <<CannotReply>>

\* C10: once a backend call has raised, the dispatch loop goes on, no run
\* of the handler lets an exception out, and every text message handled
\* later, of the same or of another user, is decided by the usual rules
\* (cooldown against the user's latest acceptance, then the window count)
\* and answered.
HandlingGoesOnAfterFailure ==
    (failed # {}) =>
        /\ app = "polling"
        /\ ~last.raised
        /\ (last.kind = "text" /\ last.after_failure) =>
              /\ last.decision \in ShortRejections <=> last.since < 3
              /\ last.decision \in WindowRejections <=>
                    (last.since >= 3 /\ last.recent >= 20)
              /\ last.decision = "accept" <=>
                    (last.since >= 3 /\ last.recent < 20)
              /\ last.decision = "accept" =>
                    (last.calls = 1 /\ Len(last.sent) = 1)

\* after a failed dispatch for one user, a message of another user accepted
\* and answered by the backend
C10Witness ==
    /\ last.kind = "text" /\ last.after_failure
    /\ failed \ {last.user} # {}
    /\ last.decision = "accept" /\ last.sent = <<BackendReply>>

\* C13: the backend is resolved before the dispatch loop starts. When
\* start-up fails no message is ever handled; whenever a message is handled
\* one concrete backend is installed, and the "system not ready" notice is
\* never sent.
BackendInstalledBeforeDispatch ==
    /\ app # "polling" => (last = NoRun /\ rate_limit = <<>> /\ texted = {})
    /\ app = "polling" => ai_engine \in {"dummy", "gemini"}
    /\ last.kind # "none" =>
          (app = "polling" /\ ai_engine \in {"dummy", "gemini"})
    /\ last.sent # <<NotReadyNotice>>

\* a text message accepted and answered by the installed Gemini backend
C13Witness ==
    /\ app = "polling" /\ ai_engine = "gemini"
    /\ last.kind = "text" /\ last.decision = "accept"
    /\ last.calls = 1 /\ last.sent = <<BackendReply>>

\* C14: after every rate-limit decision taken at time now, short-cooldown
\* rejections included, the user's hits hold only timestamps t with
\* now - t < 600.
HitsFreshAfterEveryDecision ==
    last.kind = "text" =>
        \A i \in 1..Len(rate_limit[last.user].hits) :
            last.now - rate_limit[last.user].hits[i] < window_seconds

\* C15: a message handled within 3 seconds of the user's latest acceptance
\* while 20 acceptances lie inside the window is rejected by the short
\* cooldown: at most the short-cooldown warning is sent, never the window
\* warning, and warned_window stays as it was.
ShortCooldownWinsTie ==
    [][(/\ last'.kind = "text"
        /\ last'.since < cooldown_seconds
        /\ last'.recent >= window_limit
        /\ last'.user \in DOMAIN rate_limit)
       => /\ last'.decision \in ShortRejections
          /\ last'.sent \in {<<>>, <<ShortWarning>>}
          /\ rate_limit'[last'.user].warned_window
                = rate_limit[last'.user].warned_window]_vars

\* the message right after the 20th acceptance of a window, answered with
\* the short-cooldown warning
C15Witness ==
    /\ last.kind = "text" /\ last.since < cooldown_seconds
    /\ last.recent = window_limit
    /\ last.decision = "short_warn" /\ last.sent = <<ShortWarning>>
    /\ ~rate_limit[last.user].warned_window

\* C18: the rate-limit table holds one record per user, created by the
\* user's first text message and never removed or replaced: the keys only
\* grow, a record keeps its latest acceptance and its hits inside the
\* window, and a user has a record exactly when one of their text messages
\* has been handled.
RecordsCreatedOnceAndKept ==
    [][/\ DOMAIN rate_limit \subseteq DOMAIN rate_limit'
       /\ DOMAIN rate_limit' = texted'
       /\ \A u \in DOMAIN rate_limit :
             /\ rate_limit'[u].last_ts >= rate_limit[u].last_ts
             /\ \A i \in 1..Len(rate_limit[u].hits) :
                   clock' - rate_limit[u].hits[i] < window_seconds =>
                      \E j \in 1..Len(rate_limit'[u].hits) :
                         rate_limit'[u].hits[j] = rate_limit[u].hits[i]]_vars

\* one user has a record with an acceptance in it, a second acceptance did
\* not reset it, and a message without text of another user created none
C18Witness ==
    /\ last.kind = "no_text" /\ last.user \notin DOMAIN rate_limit
    /\ \E u \in DOMAIN rate_limit :
          /\ Len(accepted[u]) >= 2
          /\ Len(rate_limit[u].hits) >= 2

\* C19: the decisions taken for a user and the user's record are the same
\* in the run as they are in a run fed that user's messages only, at the
\* same readings of the clock.
PerUserIndependence ==
    /\ \A u \in Users :
          /\ DOMAIN solo[u] = DOMAIN rate_limit \cap {u}
          /\ u \in DOMAIN rate_limit => solo[u][u] = rate_limit[u]
    /\ last.kind = "text" => last.solo_decision = last.decision

\* an acceptance of another user lies between two acceptances of the user
C19Witness ==
    \E u \in Users, v \in Users :
        /\ u # v
        /\ Len(accepted[u]) >= 2 /\ Len(accepted[v]) >= 1
        /\ accepted[u][1] < accepted[v][1]
        /\ accepted[v][1] < accepted[u][2]
        /\ last.kind = "text" /\ last.user = u /\ last.decision = "accept"
        /\ last.now = accepted[u][2]

\* C20 (RejectionConsumesNoBudget): a rejected message consumes no budget.
\* A short-cooldown rejection leaves last_ts, hits and warned_window as they
\* were and can only set warned_short; a window rejection leaves last_ts and
\* warned_short as they were, adds no entry to hits and can only set
\* warned_window. Hence a message at least 600 seconds after the user's
\* latest acceptance is accepted.
RejectionFrame ==
    last'.kind = "text" =>
        LET u == last'.user
            before == SetDefault(rate_limit, u)[u]
            after == rate_limit'[u]
        IN /\ last'.decision \in ShortRejections =>
                /\ after.last_ts = before.last_ts
                /\ after.hits = before.hits
                /\ after.warned_window = before.warned_window
                /\ before.warned_short => after.warned_short
           /\ last'.decision \in WindowRejections =>
                /\ after.last_ts = before.last_ts
                /\ after.warned_short = before.warned_short
                /\ after.hits = PruneHits(before.hits, last'.now)
                /\ before.warned_window => after.warned_window

\* a message at least 600 seconds after the user's latest acceptance is
\* accepted, whatever was rejected in between
NoLockOut ==
    (last.kind = "text" /\ last.since >= window_seconds) =>
        last.decision = "accept"

RejectionConsumesNoBudget == []NoLockOut /\ [][RejectionFrame]_vars

\* a message 600 seconds or more after the latest acceptance, with warned
\* rejections in between, accepted
C20Witness ==
    /\ last.kind = "text" /\ last.since >= window_seconds
    /\ Len(accepted[last.user]) > window_limit
    /\ last.cleared /\ last.decision = "accept"

\* the first candidate of the list whose probe succeeds, <<>> when none
FirstAccepting(candidates, probe) ==
    IF \E i \in 1..Len(candidates) : probe[candidates[i]] = "ok"
    THEN candidates[CHOOSE i \in 1..Len(candidates) :
                       /\ probe[candidates[i]] = "ok"
                       /\ \A j \in 1..(i - 1) : probe[candidates[j]] # "ok"]
    ELSE <<>>

\* C17: with an API key, model selection takes the first candidate of the
\* list (configured model, its "models/" form, the fixed fallbacks) whose
\* probe succeeds, construction fails only when no candidate accepts the
\* probe, and _model_name is the selected candidate.
FirstAcceptingCandidateSelected ==
    (gemini # NoGemini /\ GEMINI_API_KEY # "") =>
        LET first == FirstAccepting(Candidates(GEMINI_MODEL), service) IN
        IF first = <<>> THEN gemini.state # "built"
        ELSE gemini.state = "built" /\ gemini._model_name = first

\* C11: while the backend call for one user's accepted message is in
\* flight, a delivered message of another user can be handed to on_message
\* without waiting for that call to return.
OtherUsersNotStalled ==
    \A u \in Users :
        (/\ handlers["to_thread", u] > 0
         /\ update_queue # <<>>
         /\ Head(update_queue) # u) => CanStart

\* C12: when handlers of the same user are in flight at once and interleave
\* at their awaits, no acceptance is lost or duplicated: accepted messages
\* of one user are at least 3 seconds apart, last_ts is the latest
\* acceptance, and every acceptance inside the window is in hits exactly
\* once, hits holding nothing else.
AcceptancesKeptUnderInterleaving ==
    \A u \in DOMAIN rate_limit :
        LET acc == accepted[u]
            hits == rate_limit[u].hits
        IN /\ \A i \in 1..(Len(acc) - 1) :
                 acc[i + 1] - acc[i] >= cooldown_seconds
           /\ rate_limit[u].last_ts = IF acc = <<>> THEN 0 ELSE acc[Len(acc)]
           /\ \A i \in 1..Len(acc) :
                 clock - acc[i] < window_seconds =>
                    Cardinality({j \in 1..Len(hits) : hits[j] = acc[i]}) = 1
           /\ \A j \in 1..Len(hits) : \E i \in 1..Len(acc) : acc[i] = hits[j]

\* two handlers of one user suspended at the backend call at the same
\* time, both messages accepted
C12Witness ==
    \E u \in Users :
        /\ handlers["to_thread", u] >= 2
        /\ Len(accepted[u]) >= 2
        /\ Len(rate_limit[u].hits) = Len(accepted[u])

\* C16: the rate-limit check never suspends: no handler is at an await
\* between reading the user's record and setting warned_short or
\* warned_window, and at most one warning of each type is sent between two
\* acceptances of a user.
RateLimitCheckNeverSuspends ==
    /\ \A u \in Users :
          handlers["short_reply", u] = 0 /\ handlers["window_reply", u] = 0
    /\ \A u \in Users : nShort[u] <= 1 /\ nWindow[u] <= 1

====
